---- MODULE Spec2Model ----
(***************************************************************************)
(* A model of the nucampsite server: the authenticate module (token        *)
(* service, jwt / facebook strategies, verifyAdmin), the users router, the *)
(* campsite router with its nested comments, and the favorites router.     *)
(*                                                                         *)
(* Times are the whole-second clock readings that the token carries        *)
(* (iat / exp are seconds).  A user's _id, a campsite's _id and a          *)
(* comment's _id are small naturals.                                       *)
(***************************************************************************)
EXTENDS Naturals, Sequences, FiniteSets

VARIABLES users, campsites, favorites, now, req, res, pre, tk, verdict, registered,
          sessions, held, pending

vars == <<users, campsites, favorites, now, req, res, pre, tk, verdict, registered,
          sessions, held, pending>>

(* ------------------------------ bounds --------------------------------- *)

NumUsers == 2
MaxCampsites == 1
MaxComments == 2
MaxRating == 2
MaxTicks == 1
MaxIssue == 2
MaxStore == 3
MaxInflight == 2

(* ------------------------- program constants --------------------------- *)

expiresIn == 3600

secretKey == "secretKey"

NotAuthorizedMsg == "You are not authorized to perform this operation!"

(* ---------------------------- value sets ------------------------------- *)

UserIds == 1 .. NumUsers
CampsiteIds == 1 .. MaxCampsites
CommentIds == 1 .. MaxComments
Ratings == 1 .. MaxRating
Names == {"n1", "n2"}
Usernames == {"ann", "bob"}
Passwords == {"p1", "p2"}
Salts == {"s1", "s2"}
FirstNames == {"", "Fn"}
LastNames == {"", "Ln"}
Profiles == [id : {"f1", "f2"}, displayName : {"ann", "cy"},
             givenName : {"Gi"}, familyName : {"Fa"}]
Texts == {"a", "b"}
Slots == 1 .. MaxInflight

NoUser == [_id |-> 0, username |-> "", salt |-> "", hash |-> <<>>, facebookId |-> "",
           firstname |-> "", lastname |-> "", admin |-> FALSE]

NoToken == [_id |-> 0, iat |-> 0, exp |-> 0, sig |-> "none"]

\* tk when nobody has authenticated: tk is the outcome of the last successful
\* authentication, the user it resolved (req.user), the token issued for it, and
\* the time
NoAuth == [token |-> NoToken, uid |-> 0, at |-> 0]

\* verdict when no token has been checked: verdict is the outcome of the last
\* check of a token, with the time the token was issued at, the user it was issued
\* for, and the time of the check
NoVerdict == [issued |-> 0, for |-> 0, at |-> 0, result |-> "none", uid |-> 0]

NoProfile == [id |-> "", displayName |-> "", givenName |-> "", familyName |-> ""]

NoComment == [_id |-> 0, author |-> 0, rating |-> 0, text |-> ""]

NoCampsite == [present |-> FALSE, name |-> "", comments |-> <<>>]

NoReq == [route |-> "none", token |-> NoToken, campsiteId |-> 0, commentId |-> 0,
          rating |-> 0, text |-> "", name |-> "", ids |-> <<>>,
          username |-> "", password |-> "", firstname |-> "", lastname |-> "",
          profile |-> NoProfile, author |-> 0, session |-> 0, fails |-> 0]

NoRes == [status |-> 0, msg |-> "", by |-> "none"]

\* res of a request whose handler has ended without a response and without a
\* call of next: the request stays pending
NoResponse == [status |-> 0, msg |-> "", by |-> "pending"]

\* a free slot of pending: pending holds the requests that are between two of
\* their store calls, with what the first call returned (doc: the index of the
\* document found, 0 for null; list: its campsites as loaded)
NoPending == [kind |-> "none", uid |-> 0, profile |-> NoProfile, ids |-> <<>>,
              campsiteId |-> 0, doc |-> 0, list |-> <<>>, gone |-> FALSE]

(* ------------------------- sequence helpers ---------------------------- *)

\* the least index of s whose element passes Test, 0 when there is none
FirstIndex(s, Test(_)) ==
    LET I == {i \in 1 .. Len(s) : Test(s[i])}
    IN  IF I = {} THEN 0 ELSE CHOOSE i \in I : \A j \in I : i <= j

SelectFirst(s, Test(_), default) ==
    LET i == FirstIndex(s, Test) IN IF i = 0 THEN default ELSE s[i]

RemoveAt(s, i) == SubSeq(s, 1, i - 1) \o SubSeq(s, i + 1, Len(s))

Range(s) == {s[i] : i \in 1 .. Len(s)}

(* --------------------------- Token Service ----------------------------- *)

\* exports.getToken: jwt.sign(user, config.secretKey, { expiresIn: 3600 }) at time t
getToken(uid, t) == [_id |-> uid, iat |-> t, exp |-> t + expiresIn, sig |-> secretKey]

\* the jwt strategy's check of the bearer token at time t (opts: header extraction,
\* secretOrKey): no token, then the signature, then the expiry
jwtVerify_Late(tok, t) ==
    IF tok = NoToken THEN "NoToken"
    ELSE IF tok.sig # secretKey THEN "InvalidSignature"
    ELSE IF t > tok.exp THEN "Expired"
    ELSE "ok"

jwtVerify(tok, t) ==
    IF tok = NoToken THEN "NoToken"
    ELSE IF tok.sig # secretKey THEN "InvalidSignature"
    ELSE IF t >= tok.exp THEN "Expired"
    ELSE "ok"

\* User.findOne({ _id: id })
findById(store, id) == SelectFirst(store, LAMBDA u : u._id = id, NoUser)

\* the verify callback of the jwt strategy: done(null, user) or done(null, false)
jwtPassport(store, payload) == findById(store, payload._id)

verifyUser_WithSession(store, tok, t) ==
    IF jwtVerify(tok, t) = "ok" /\ tok._id \in sessions
    THEN jwtPassport(store, tok) ELSE NoUser

\* exports.verifyUser = passport.authenticate('jwt', { session: false })
verifyUser(store, tok, t) ==
    IF jwtVerify(tok, t) = "ok" THEN jwtPassport(store, tok) ELSE NoUser

verifyAdmin_Always(user) == TRUE

\* exports.verifyAdmin
verifyAdmin(user) == user.admin

(* ------------------------- middleware chains --------------------------- *)

usesVerifyUser_OnlyCampsites(route) ==
    route \in {"POST /campsites", "PUT /campsites", "DELETE /campsites",
               "POST /campsites/:campsiteId", "PUT /campsites/:campsiteId",
               "DELETE /campsites/:campsiteId",
               "POST /campsites/:campsiteId/comments",
               "PUT /campsites/:campsiteId/comments",
               "DELETE /campsites/:campsiteId/comments",
               "POST /campsites/:campsiteId/comments/:commentId",
               "PUT /campsites/:campsiteId/comments/:commentId",
               "DELETE /campsites/:campsiteId/comments/:commentId",
               "GET /users"}

\* the routes whose middleware chain starts with authenticate.verifyUser
usesVerifyUser(route) ==
    route \in {"POST /campsites", "PUT /campsites", "DELETE /campsites",
               "POST /campsites/:campsiteId", "PUT /campsites/:campsiteId",
               "DELETE /campsites/:campsiteId",
               "POST /campsites/:campsiteId/comments",
               "PUT /campsites/:campsiteId/comments",
               "DELETE /campsites/:campsiteId/comments",
               "POST /campsites/:campsiteId/comments/:commentId",
               "PUT /campsites/:campsiteId/comments/:commentId",
               "DELETE /campsites/:campsiteId/comments/:commentId",
               "GET /favorites", "POST /favorites", "PUT /favorites",
               "DELETE /favorites",
               "GET /favorites/:campsiteId", "POST /favorites/:campsiteId",
               "GET /users"}

\* the routes that chain authenticate.verifyAdmin after authenticate.verifyUser
usesVerifyAdmin(route) ==
    route \in {"POST /campsites", "DELETE /campsites",
               "PUT /campsites/:campsiteId", "DELETE /campsites/:campsiteId",
               "DELETE /campsites/:campsiteId/comments",
               "GET /users"}

\* req.user as the jwt strategy sets it (NoUser on a route without verifyUser)
reqUser(r) ==
    IF usesVerifyUser(r.route) THEN verifyUser(users, r.token, now) ELSE NoUser

\* where the middleware chain of r.route ends the request, or "handler"
gate(r) ==
    IF usesVerifyUser(r.route) /\ reqUser(r) = NoUser THEN "verifyUser"
    ELSE IF usesVerifyAdmin(r.route) /\ ~verifyAdmin(reqUser(r)) THEN "verifyAdmin"
    ELSE "handler"

Store == [users |-> users, campsites |-> campsites, favorites |-> favorites]

\* the response of a request that a middleware ended; the store is not touched
Rejected(r) ==
    /\ res' = IF gate(r) = "verifyUser"
              THEN [status |-> 401, msg |-> "Unauthorized", by |-> "verifyUser"]
              ELSE [status |-> 403, msg |-> NotAuthorizedMsg, by |-> "verifyAdmin"]
    /\ UNCHANGED <<campsites, favorites>>

\* res.statusCode / next(err) of a handler: err.status, 500 when the error has none
Handled(status, msg) == res' = [status |-> status, msg |-> msg, by |-> "handler"]

\* a request r served by its route: the middleware chain, then Handler.  req, res
\* and pre (the store as the request found it) are the request's context, which
\* lives until the response is delivered (Finish)
Serve(r, Handler) ==
    /\ req = NoReq
    /\ req' = r
    /\ pre' = Store
    /\ IF gate(r) # "handler" THEN Rejected(r) ELSE Handler
    /\ UNCHANGED <<users, now, tk, verdict, registered, sessions, held, pending>>

(* --------------------------- campsiteRouter ---------------------------- *)

\* campsite.comments.id(commentId)
commentsId(comments, k) == SelectFirst(comments, LAMBDA c : c._id = k, NoComment)

mayEditComment_OwnerOrAdmin(user, comment) == user._id = comment.author \/ user.admin

mayDeleteComment_AdminOnly(user, comment) == user.admin

\* PUT comment, line 253: author_id_from_request.equals(author of the comment)
mayEditComment(user, comment) == user._id = comment.author

\* DELETE comment, line 292: the same test, || req.user.admin
mayDeleteComment(user, comment) == user._id = comment.author \/ user.admin

GetCampsites ==
    Serve([NoReq EXCEPT !.route = "GET /campsites"],
          Handled(200, "campsites") /\ UNCHANGED <<campsites, favorites>>)

PostCampsites(tok, name) ==
    Serve([NoReq EXCEPT !.route = "POST /campsites", !.token = tok, !.name = name],
          \E c \in CampsiteIds :
              /\ ~campsites[c].present
              /\ campsites' = [campsites EXCEPT
                                 ![c] = [present |-> TRUE, name |-> name, comments |-> <<>>]]
              /\ Handled(200, "campsite")
              /\ UNCHANGED favorites)

PutCampsites(tok) ==
    Serve([NoReq EXCEPT !.route = "PUT /campsites", !.token = tok],
          Handled(403, "PUT operation not supported") /\ UNCHANGED <<campsites, favorites>>)

DeleteCampsites(tok) ==
    Serve([NoReq EXCEPT !.route = "DELETE /campsites", !.token = tok],
          /\ campsites' = [c \in CampsiteIds |-> NoCampsite]
          /\ Handled(200, "deleted")
          /\ UNCHANGED favorites)

GetCampsite(c) ==
    Serve([NoReq EXCEPT !.route = "GET /campsites/:campsiteId", !.campsiteId = c],
          Handled(200, "campsite") /\ UNCHANGED <<campsites, favorites>>)

PostCampsite(tok, c) ==
    Serve([NoReq EXCEPT !.route = "POST /campsites/:campsiteId", !.token = tok,
                        !.campsiteId = c],
          Handled(403, "POST operation not supported") /\ UNCHANGED <<campsites, favorites>>)

\* the same handler under a body that carries a comments field: $set puts the
\* body's array in the place of the campsite's comments
PutCampsiteComments(tok, c, comments) ==
    Serve([NoReq EXCEPT !.route = "PUT /campsites/:campsiteId", !.token = tok,
                        !.campsiteId = c],
          /\ campsites' = IF campsites[c].present
                          THEN [campsites EXCEPT ![c].comments = comments]
                          ELSE campsites
          /\ Handled(200, "campsite")
          /\ UNCHANGED favorites)

PutCampsite(tok, c, name) ==
    Serve([NoReq EXCEPT !.route = "PUT /campsites/:campsiteId", !.token = tok,
                        !.campsiteId = c, !.name = name],
          /\ campsites' = IF campsites[c].present
                          THEN [campsites EXCEPT ![c].name = name]
                          ELSE campsites
          /\ Handled(200, "campsite")
          /\ UNCHANGED favorites)

DeleteCampsite(tok, c) ==
    Serve([NoReq EXCEPT !.route = "DELETE /campsites/:campsiteId", !.token = tok,
                        !.campsiteId = c],
          /\ campsites' = [campsites EXCEPT ![c] = NoCampsite]
          /\ Handled(200, "deleted")
          /\ UNCHANGED favorites)

GetComments(c) ==
    Serve([NoReq EXCEPT !.route = "GET /campsites/:campsiteId/comments", !.campsiteId = c],
          /\ IF campsites[c].present THEN Handled(200, "comments")
             ELSE Handled(404, "Campsite not found")
          /\ UNCHANGED <<campsites, favorites>>)

commentAuthor_FromBody(user, bodyAuthor) ==
    IF bodyAuthor # 0 THEN bodyAuthor ELSE user._id

\* POST comments, line 161: req.body.author = req.user._id
commentAuthor(user, bodyAuthor) == user._id

\* author is the author field of the body, 0 for a body without one
PostComments(tok, c, rating, text, author) ==
    Serve([NoReq EXCEPT !.route = "POST /campsites/:campsiteId/comments", !.token = tok,
                        !.campsiteId = c, !.rating = rating, !.text = text,
                        !.author = author],
          IF campsites[c].present
          THEN \E k \in CommentIds :
                  /\ commentsId(campsites[c].comments, k) = NoComment
                  /\ campsites' = [campsites EXCEPT ![c].comments =
                        Append(@, [_id |-> k,
                                   author |-> commentAuthor(verifyUser(users, tok, now),
                                                            author),
                                   rating |-> rating, text |-> text])]
                  /\ Handled(200, "campsite")
                  /\ UNCHANGED favorites
          ELSE Handled(404, "Campsite not found") /\ UNCHANGED <<campsites, favorites>>)

PutComments(tok, c) ==
    Serve([NoReq EXCEPT !.route = "PUT /campsites/:campsiteId/comments", !.token = tok,
                        !.campsiteId = c],
          Handled(403, "PUT operation not supported") /\ UNCHANGED <<campsites, favorites>>)

DeleteComments(tok, c) ==
    Serve([NoReq EXCEPT !.route = "DELETE /campsites/:campsiteId/comments", !.token = tok,
                        !.campsiteId = c],
          /\ IF campsites[c].present
             THEN /\ campsites' = [campsites EXCEPT ![c].comments = <<>>]
                  /\ Handled(200, "campsite")
             ELSE /\ Handled(404, "Campsite not found")
                  /\ UNCHANGED campsites
          /\ UNCHANGED favorites)

GetComment(c, k) ==
    Serve([NoReq EXCEPT !.route = "GET /campsites/:campsiteId/comments/:commentId",
                        !.campsiteId = c, !.commentId = k],
          /\ IF campsites[c].present /\ commentsId(campsites[c].comments, k) # NoComment
             THEN Handled(200, "comment")
             ELSE IF ~campsites[c].present THEN Handled(404, "Campsite not found")
             ELSE Handled(404, "Comment not found")
          /\ UNCHANGED <<campsites, favorites>>)

PostComment(tok, c, k) ==
    Serve([NoReq EXCEPT !.route = "POST /campsites/:campsiteId/comments/:commentId",
                        !.token = tok, !.campsiteId = c, !.commentId = k],
          Handled(403, "POST operation not supported") /\ UNCHANGED <<campsites, favorites>>)

\* rating 0 and text "" stand for a body without that field (or a falsy one)
PutComment(tok, c, k, rating, text) ==
    LET r == [NoReq EXCEPT !.route = "PUT /campsites/:campsiteId/comments/:commentId",
                           !.token = tok, !.campsiteId = c, !.commentId = k,
                           !.rating = rating, !.text = text]
        comment == commentsId(campsites[c].comments, k)
        i == FirstIndex(campsites[c].comments, LAMBDA x : x._id = k)
    IN  Serve(r,
          /\ UNCHANGED favorites
          /\ IF campsites[c].present /\ comment # NoComment
             THEN IF mayEditComment(reqUser(r), comment)
                  THEN /\ campsites' = [campsites EXCEPT ![c].comments[i] =
                              [@ EXCEPT !.rating = IF rating # 0 THEN rating ELSE @,
                                        !.text = IF text # "" THEN text ELSE @]]
                       /\ Handled(200, "campsite")
                  ELSE /\ Handled(403, "You are not authorized to delete this comment!")
                       /\ UNCHANGED campsites
             ELSE IF ~campsites[c].present
                  THEN Handled(404, "Campsite not found") /\ UNCHANGED campsites
                  ELSE Handled(404, "Comment not found") /\ UNCHANGED campsites)

\* lines 288-291 dereference campsite and the comment before any test: a missing
\* campsite or comment throws a TypeError, which .catch passes to next (no status).
\* Past them the inner test of line 293 is always true, so the 403 of lines
\* 302-306 is never reached; a refused user gets the final else of lines 311-315.
DeleteComment(tok, c, k) ==
    LET r == [NoReq EXCEPT !.route = "DELETE /campsites/:campsiteId/comments/:commentId",
                           !.token = tok, !.campsiteId = c, !.commentId = k]
        comment == commentsId(campsites[c].comments, k)
        i == FirstIndex(campsites[c].comments, LAMBDA x : x._id = k)
    IN  Serve(r,
          /\ UNCHANGED favorites
          /\ IF ~campsites[c].present \/ comment = NoComment
             THEN Handled(500, "TypeError") /\ UNCHANGED campsites
             ELSE IF mayDeleteComment(reqUser(r), comment)
                  THEN /\ campsites' = [campsites EXCEPT ![c].comments = RemoveAt(@, i)]
                       /\ Handled(200, "campsite")
                  ELSE Handled(404, "Comment not found") /\ UNCHANGED campsites)

(* --------------------------- favoriteRouter ---------------------------- *)

\* Favorite.findOne({ user: req.user._id }): its index in the collection, 0 for null
findFavorite(uid) == FirstIndex(favorites, LAMBDA f : f.user = uid)

\* req.body.forEach: push every id that favorite.campsites does not include yet
RECURSIVE pushMissing(_, _)
pushMissing(list, ids) ==
    IF ids = <<>> THEN list
    ELSE pushMissing(IF Head(ids) \in Range(list) THEN list ELSE Append(list, Head(ids)),
                     Tail(ids))

OptionsFavorites ==
    Serve([NoReq EXCEPT !.route = "OPTIONS /favorites"],
          Handled(200, "OK") /\ UNCHANGED <<campsites, favorites>>)

GetFavorites(tok) ==
    Serve([NoReq EXCEPT !.route = "GET /favorites", !.token = tok],
          Handled(200, "favorites") /\ UNCHANGED <<campsites, favorites>>)

PostFavorites(tok, ids) ==
    LET r == [NoReq EXCEPT !.route = "POST /favorites", !.token = tok, !.ids = ids]
        i == findFavorite(reqUser(r)._id)
    IN  Serve(r,
          /\ favorites' = IF i # 0
                          THEN [favorites EXCEPT ![i].campsites = pushMissing(@, ids)]
                          ELSE Append(favorites, [user |-> reqUser(r)._id, campsites |-> ids])
          /\ Handled(200, "favorite")
          /\ UNCHANGED campsites)

PutFavorites(tok) ==
    Serve([NoReq EXCEPT !.route = "PUT /favorites", !.token = tok],
          Handled(403, "PUT operation not supported") /\ UNCHANGED <<campsites, favorites>>)

DeleteFavorites(tok) ==
    LET r == [NoReq EXCEPT !.route = "DELETE /favorites", !.token = tok]
        i == findFavorite(reqUser(r)._id)
    IN  Serve(r,
          /\ IF i # 0
             THEN favorites' = RemoveAt(favorites, i) /\ Handled(200, "removed")
             ELSE UNCHANGED favorites
                  /\ Handled(404, "You do not have any favorites to delete.")
          /\ UNCHANGED campsites)

\* line 78 calls req.sendStatus, which is no function: the TypeError goes to the
\* error handler with no status
OptionsFavorite(c) ==
    Serve([NoReq EXCEPT !.route = "OPTIONS /favorites/:campsiteId", !.campsiteId = c],
          Handled(500, "TypeError") /\ UNCHANGED <<campsites, favorites>>)

GetFavorite(tok, c) ==
    Serve([NoReq EXCEPT !.route = "GET /favorites/:campsiteId", !.token = tok,
                        !.campsiteId = c],
          Handled(403, "GET operation not supported") /\ UNCHANGED <<campsites, favorites>>)

PostFavorite(tok, c) ==
    LET r == [NoReq EXCEPT !.route = "POST /favorites/:campsiteId", !.token = tok,
                           !.campsiteId = c]
        i == findFavorite(reqUser(r)._id)
    IN  Serve(r,
          /\ IF i # 0
             THEN IF c \notin Range(favorites[i].campsites)
                  THEN /\ favorites' = [favorites EXCEPT ![i].campsites = Append(@, c)]
                       /\ Handled(200, "favorite")
                  ELSE /\ UNCHANGED favorites
                       /\ Handled(200, "That campsite is already a favorite!")
             ELSE /\ favorites' = Append(favorites,
                                         [user |-> reqUser(r)._id, campsites |-> <<c>>])
                  /\ Handled(200, "favorite")
          /\ UNCHANGED campsites)

(* ------------------------- users router: GET / ------------------------- *)

GetUsers(tok) ==
    Serve([NoReq EXCEPT !.route = "GET /users", !.token = tok],
          Handled(200, "respond with a resource") /\ UNCHANGED <<campsites, favorites>>)

\* the response is delivered and the request's context is discarded
Finish ==
    /\ req # NoReq
    /\ res # NoResponse
    /\ req' = NoReq
    /\ res' = NoRes
    /\ pre' = Store
    /\ UNCHANGED <<users, campsites, favorites, now, tk, verdict, registered,
                   sessions, held, pending>>

(* ------------------------------ the clock ------------------------------ *)

Tick(limit) ==
    /\ req = NoReq
    /\ now < limit
    /\ now' = now + 1
    /\ verdict' = NoVerdict
    /\ UNCHANGED <<users, campsites, favorites, req, res, pre, tk, registered,
                   sessions, held, pending>>

(* ------------------- the routers behind bearer tokens ------------------ *)

\* a user document as it is after local signup, with the admin flag as set in the
\* database
LocalUser(id, admin) ==
    [_id |-> id, username |-> <<"ann", "bob", "cy", "dee", "eve">>[id], salt |-> "s1",
     hash |-> <<"s1", "p1">>, facebookId |-> "", firstname |-> "", lastname |-> "",
     admin |-> admin]

\* the bearer tokens a request may carry at time t: none, one signed with another
\* key, and those getToken issued at an earlier time for a user id (the last id
\* is of a user that is no longer in the collection)
Tokens(t) ==
    {NoToken, [getToken(1, t) EXCEPT !.sig = "otherKey"]}
        \cup {getToken(id, at) : id \in 1 .. NumUsers + 1, at \in (0 .. MaxTicks) \cup {t}}

Init ==
    /\ \E admins \in SUBSET UserIds :
          users = [id \in UserIds |-> LocalUser(id, id \in admins)]
    /\ campsites = [c \in CampsiteIds |-> NoCampsite]
    /\ favorites = <<>>
    /\ now = expiresIn
    /\ req = NoReq
    /\ res = NoRes
    /\ pre = Store
    /\ tk = NoAuth
    /\ verdict = NoVerdict
    /\ registered = {}
    /\ sessions = {}
    /\ held = NoAuth
    /\ pending = [s \in Slots |-> NoPending]

\* the comments arrays that the body of PUT /campsites/:campsiteId may carry:
\* none, or one comment under any _id and author
BodyComments(R, X) ==
    {<<>>} \cup {<<[_id |-> k, author |-> a, rating |-> r, text |-> x]>> :
                    k \in CommentIds, a \in UserIds, r \in R, x \in X}

\* the campsite router, with bearer tokens from T, campsite names from N, ratings
\* from R and comment texts from X in the requests
CampsiteRoutes(T, N, R, X) ==
    \/ GetCampsites
    \/ \E tok \in T, name \in N : PostCampsites(tok, name)
    \/ \E tok \in T : PutCampsites(tok)
    \/ \E tok \in T : DeleteCampsites(tok)
    \/ \E c \in CampsiteIds : GetCampsite(c)
    \/ \E tok \in T, c \in CampsiteIds : PostCampsite(tok, c)
    \/ \E tok \in T, c \in CampsiteIds, name \in N : PutCampsite(tok, c, name)
    \/ \E tok \in T, c \in CampsiteIds, comments \in BodyComments(R, X) :
          PutCampsiteComments(tok, c, comments)
    \/ \E tok \in T, c \in CampsiteIds : DeleteCampsite(tok, c)
    \/ \E c \in CampsiteIds : GetComments(c)
    \/ \E tok \in T, c \in CampsiteIds, rating \in R, text \in X,
          author \in {0} \cup UserIds :
          PostComments(tok, c, rating, text, author)
    \/ \E tok \in T, c \in CampsiteIds : PutComments(tok, c)
    \/ \E tok \in T, c \in CampsiteIds : DeleteComments(tok, c)
    \/ \E c \in CampsiteIds, k \in CommentIds : GetComment(c, k)
    \/ \E tok \in T, c \in CampsiteIds, k \in CommentIds : PostComment(tok, c, k)
    \/ \E tok \in T, c \in CampsiteIds, k \in CommentIds,
          rating \in {0} \cup R, text \in {""} \cup X :
          PutComment(tok, c, k, rating, text)
    \/ \E tok \in T, c \in CampsiteIds, k \in CommentIds : DeleteComment(tok, c, k)

FavoriteRoutes(T) ==
    \/ OptionsFavorites
    \/ \E tok \in T : GetFavorites(tok)
    \/ \E tok \in T, ids \in {<<>>} \cup {<<x>> : x \in CampsiteIds} :
          PostFavorites(tok, ids)
    \/ \E tok \in T : PutFavorites(tok)
    \/ \E tok \in T : DeleteFavorites(tok)
    \/ \E c \in CampsiteIds : OptionsFavorite(c)
    \/ \E tok \in T, c \in CampsiteIds : GetFavorite(tok, c)
    \/ \E tok \in T, c \in CampsiteIds : PostFavorite(tok, c)

\* every route, under every kind of bearer token
Next ==
    \/ CampsiteRoutes(Tokens(now), {"n1"}, {1}, {"a"})
    \/ FavoriteRoutes(Tokens(now))
    \/ \E tok \in Tokens(now) : GetUsers(tok)
    \/ Finish
    \/ Tick(expiresIn + MaxTicks)

Spec == Init /\ [][Next]_vars

\* the campsite router under the token that login has just issued to a user
NextComments ==
    \/ CampsiteRoutes({getToken(u, now) : u \in UserIds}, Names, Ratings, Texts)
    \/ Finish

SpecComments == Init /\ [][NextComments]_vars

(* ======================= comment authorization ========================= *)

PutCommentRoute == "PUT /campsites/:campsiteId/comments/:commentId"
DeleteCommentRoute == "DELETE /campsites/:campsiteId/comments/:commentId"

\* the request in progress is on /:campsiteId/comments/:commentId, by an
\* authenticated user, and found the campsite and the comment in the store
OnExistingComment ==
    /\ req.route \in {PutCommentRoute, DeleteCommentRoute}
    /\ reqUser(req) # NoUser
    /\ pre.campsites[req.campsiteId].present
    /\ commentsId(pre.campsites[req.campsiteId].comments, req.commentId) # NoComment

\* the comment the request is about, as the request found it
Target == commentsId(pre.campsites[req.campsiteId].comments, req.commentId)

IsAuthor == reqUser(req)._id = Target.author

TargetRemoved ==
    /\ commentsId(campsites[req.campsiteId].comments, req.commentId) = NoComment
    /\ Len(campsites[req.campsiteId].comments)
          = Len(pre.campsites[req.campsiteId].comments) - 1

\* C1: an admin who is not the comment's author is denied the edit (PUT answers
\* with an error and leaves the store as it was), while the same admin's DELETE
\* of the same comment answers 200 and the comment is removed.
C1_AdminEditDeniedDeleteGranted ==
    (OnExistingComment /\ reqUser(req).admin /\ ~IsAuthor) =>
        /\ req.route = PutCommentRoute =>
              (res.status # 200 /\ campsites = pre.campsites)
        /\ req.route = DeleteCommentRoute => (res.status = 200 /\ TargetRemoved)

\* an admin deleted a comment of another user
C1_Witness ==
    /\ OnExistingComment /\ reqUser(req).admin /\ ~IsAuthor
    /\ req.route = DeleteCommentRoute
    /\ res.status = 200
    /\ TargetRemoved

\* C2: DELETE of an existing comment of an existing campsite is granted exactly
\* when the acting user is the comment's author (admin or not) or is an admin
\* (author or not); in every other case the comment is still in the campsite.
C2_DeleteOwnerOrAdmin ==
    (OnExistingComment /\ req.route = DeleteCommentRoute) =>
        IF IsAuthor \/ reqUser(req).admin
        THEN res.status = 200 /\ TargetRemoved
        ELSE res.status # 200 /\ campsites = pre.campsites

\* a user who is no admin deleted their own comment
C2_Witness ==
    /\ OnExistingComment /\ req.route = DeleteCommentRoute
    /\ IsAuthor /\ ~reqUser(req).admin
    /\ res.status = 200
    /\ TargetRemoved

\* C3: a user denied a comment edit (not the author) or a comment delete (neither
\* the author nor an admin) is answered 403.
C3_DeniedIs403 ==
    /\ (OnExistingComment /\ req.route = PutCommentRoute /\ ~IsAuthor)
          => res.status = 403
    /\ (OnExistingComment /\ req.route = DeleteCommentRoute /\ ~IsAuthor
           /\ ~reqUser(req).admin)
          => res.status = 403

(* ========================= the authentication gate ===================== *)

NonGetCampsiteEndpoints ==
    {"POST /campsites", "PUT /campsites", "DELETE /campsites",
     "POST /campsites/:campsiteId", "PUT /campsites/:campsiteId",
     "DELETE /campsites/:campsiteId",
     "POST /campsites/:campsiteId/comments", "PUT /campsites/:campsiteId/comments",
     "DELETE /campsites/:campsiteId/comments",
     "POST /campsites/:campsiteId/comments/:commentId",
     "PUT /campsites/:campsiteId/comments/:commentId",
     "DELETE /campsites/:campsiteId/comments/:commentId"}

FavoritesEndpoints ==
    {"OPTIONS /favorites", "GET /favorites", "POST /favorites", "PUT /favorites",
     "DELETE /favorites", "OPTIONS /favorites/:campsiteId",
     "GET /favorites/:campsiteId", "POST /favorites/:campsiteId"}

PreflightEndpoints == {"OPTIONS /favorites", "OPTIONS /favorites/:campsiteId"}

\* the request's token passes verify and its user id is of an existing User
TokenAccepted ==
    /\ req.token # NoToken
    /\ req.token.sig = secretKey
    /\ now < req.token.iat + 3600
    /\ \E i \in 1 .. Len(pre.users) : pre.users[i]._id = req.token._id

RejectedUnauthenticated ==
    /\ res.status = 401
    /\ res.by = "verifyUser"
    /\ Store = pre

\* C4 as stated: on every non-GET campsite/comment endpoint, every favorites
\* endpoint and GET /users, a request whose token is not accepted is rejected
\* with 401 by the authentication gate, before the admin check and the handler,
\* and the store is unchanged.
C4_Original ==
    (req.route \in NonGetCampsiteEndpoints \cup FavoritesEndpoints \cup {"GET /users"}
        /\ ~TokenAccepted)
    => RejectedUnauthenticated

\* C4 as amended: the same, on every non-GET campsite/comment endpoint, every
\* favorites endpoint other than the two OPTIONS (preflight) endpoints, and
\* GET /users; the admin check and the handler run only under an accepted token.
C4_ProtectedNeedsToken ==
    (req.route \in NonGetCampsiteEndpoints
                     \cup (FavoritesEndpoints \ PreflightEndpoints) \cup {"GET /users"})
    => /\ ~TokenAccepted => RejectedUnauthenticated
       /\ res.by \in {"verifyAdmin", "handler"} => TokenAccepted

\* a store with a campsite and a favorites document, and a mutating request under
\* an expired token that was rejected
C4_Witness ==
    /\ req.route \in {"DELETE /campsites", "DELETE /favorites"}
    /\ jwtVerify(req.token, now) = "Expired"
    /\ \E c \in CampsiteIds : campsites[c].present
    /\ favorites # <<>>
    /\ RejectedUnauthenticated

(* ============================ the admin gate =========================== *)

AdminEndpoints ==
    {"POST /campsites", "DELETE /campsites", "PUT /campsites/:campsiteId",
     "DELETE /campsites/:campsiteId", "DELETE /campsites/:campsiteId/comments",
     "GET /users"}

\* C5: on every admin-gated endpoint, an authenticated user who is no admin is
\* answered 403 "You are not authorized to perform this operation!" and the store
\* is unchanged; an authenticated admin passes the gate to the handler.
C5_AdminGate ==
    (req.route \in AdminEndpoints /\ TokenAccepted) =>
        IF findById(users, req.token._id).admin
        THEN res.by = "handler"
        ELSE /\ res.status = 403
             /\ res.msg = "You are not authorized to perform this operation!"
             /\ Store = pre

\* a user who is no admin asked to delete the comments of a campsite that has
\* some, and was refused
C5_Witness ==
    /\ req.route = "DELETE /campsites/:campsiteId/comments"
    /\ TokenAccepted
    /\ ~findById(users, req.token._id).admin
    /\ campsites[req.campsiteId].comments # <<>>
    /\ res.status = 403
    /\ res.by = "verifyAdmin"

(* ========================== the Credential Store ======================= *)

\* the salted one-way hash of a password; distinct (password, salt) pairs give
\* distinct hashes
pbkdf2(password, salt) == <<salt, password>>

\* User.findOne({ username: username })
findByUsername(store, username) ==
    SelectFirst(store, LAMBDA u : u.username = username, NoUser)

\* User.findOne({ facebookId: profile.id })
findByFacebookId(store, id) == SelectFirst(store, LAMBDA u : u.facebookId = id, NoUser)

\* user.save(): the document replaces the stored one with its _id, or is added
saveUser(store, user) ==
    LET i == FirstIndex(store, LAMBDA u : u._id = user._id)
    IN  IF i = 0 THEN Append(store, user) ELSE [store EXCEPT ![i] = user]

\* new User({ username: username }): a fresh _id, the schema's defaults
newUser(store, username) == [NoUser EXCEPT !._id = Len(store) + 1, !.username = username]

\* User.register(user, password, cb): UsernameTaken when the username exists,
\* else the user is stored with a salt and the hash of the password
register(store, user, password, salt) ==
    IF findByUsername(store, user.username) # NoUser
    THEN [err |-> "UsernameTaken", user |-> NoUser, store |-> store]
    ELSE LET u == [user EXCEPT !.salt = salt, !.hash = pbkdf2(password, salt)]
         IN  [err |-> "", user |-> u, store |-> saveUser(store, u)]

\* User.authenticate(): the local strategy's verify function
authenticate(store, username, password) ==
    LET u == findByUsername(store, username)
    IN  IF u = NoUser THEN [err |-> "UserNotFound", user |-> NoUser]
        ELSE IF u.salt = "" \/ pbkdf2(password, u.salt) # u.hash
             THEN [err |-> "BadCredentials", user |-> NoUser]
        ELSE [err |-> "", user |-> u]

(* ----------------------------- users router ---------------------------- *)

\* passport.authenticate('local') with its default options: req.logIn keeps the
\* user (serializeUser) as a session-based login.  sessions holds the ids of the
\* users with a live session
logIn(live, user) == live \cup {user._id}

\* a request of the users router (or of the facebook strategy): Effects sets the
\* response, the store's users, tk, registered and sessions
AuthRoute(r, Effects) ==
    /\ req = NoReq
    /\ req' = r
    /\ pre' = Store
    /\ Effects
    /\ UNCHANGED <<campsites, favorites, now, verdict, held, pending>>

signupCredentials_NameAsPassword(r) == [username |-> r.username, password |-> r.username]

registerFailed_Never(err) == FALSE

\* signup, lines 27-29: what the handler hands to User.register
signupCredentials(r) == [username |-> r.username, password |-> r.password]

\* signup, line 33: if (err)
registerFailed(err) == err # ""

\* signup, lines 39-47: the profile fields are set when the body carries them
withProfile(user, firstname, lastname) ==
    [user EXCEPT !.firstname = IF firstname # "" THEN firstname ELSE @,
                 !.lastname = IF lastname # "" THEN lastname ELSE @]

\* registered records each successful registration: the credentials the client
\* sent and the _id of the user it created
Signup(username, password, firstname, lastname) ==
    LET r == [NoReq EXCEPT !.route = "POST /users/signup", !.username = username,
                           !.password = password, !.firstname = firstname,
                           !.lastname = lastname]
        cred == signupCredentials(r)
    IN  AuthRoute(r,
          \E salt \in Salts :
            LET reg == register(users, newUser(users, cred.username), cred.password, salt)
                saved == saveUser(reg.store, withProfile(reg.user, firstname, lastname))
                auth == authenticate(saved, username, password)
            IN  IF registerFailed(reg.err)
                THEN /\ users' = reg.store
                     /\ Handled(500, reg.err)
                     /\ UNCHANGED <<tk, registered, sessions>>
                ELSE /\ Len(users) < MaxStore
                     /\ users' = saved
                     /\ registered' = registered \cup
                           {[kind |-> "local", key |-> username, password |-> password,
                             uid |-> reg.user._id]}
                     /\ IF auth.err = ""
                        THEN /\ Handled(200, "Registration Successful!")
                             /\ tk' = [token |-> NoToken, uid |-> auth.user._id, at |-> now]
                             /\ sessions' = logIn(sessions, auth.user)
                        ELSE /\ res' = [status |-> 401, msg |-> auth.err, by |-> "local"]
                             /\ UNCHANGED <<tk, sessions>>)

Login(username, password) ==
    LET r == [NoReq EXCEPT !.route = "POST /users/login", !.username = username,
                           !.password = password]
        auth == authenticate(users, username, password)
    IN  AuthRoute(r,
          /\ IF auth.err = ""
             THEN /\ Handled(200, "You are successfully logged in!")
                  /\ tk' = [token |-> getToken(auth.user._id, now),
                            uid |-> auth.user._id, at |-> now]
                  /\ sessions' = logIn(sessions, auth.user)
             ELSE /\ res' = [status |-> 401, msg |-> auth.err, by |-> "local"]
                  /\ UNCHANGED <<tk, sessions>>
          /\ UNCHANGED <<users, registered>>)

(* ------------------------- the facebook strategy ----------------------- *)

facebookNewUser_NoFacebookId(store, profile) ==
    [newUser(store, profile.displayName) EXCEPT !.firstname = profile.givenName,
                                                !.lastname = profile.familyName]

\* lines 131-134: the User made from a profile that no stored User carries
facebookNewUser(store, profile) ==
    [newUser(store, profile.displayName) EXCEPT !.facebookId = profile.id,
                                                !.firstname = profile.givenName,
                                                !.lastname = profile.familyName]

\* the verify callback of the facebook strategy, for a profile the provider
\* returned: done(null, user) with the stored or the new User
FacebookLogin(profile) ==
    LET r == [NoReq EXCEPT !.route = "facebook", !.profile = profile]
        user == findByFacebookId(users, profile.id)
        made == facebookNewUser(users, profile)
    IN  AuthRoute(r,
          IF user # NoUser
          THEN /\ tk' = [token |-> NoToken, uid |-> user._id, at |-> now]
               /\ Handled(200, "done")
               /\ UNCHANGED <<users, registered, sessions>>
          ELSE /\ Len(users) < MaxStore
               /\ users' = saveUser(users, made)
               /\ tk' = [token |-> NoToken, uid |-> made._id, at |-> now]
               /\ registered' = registered \cup
                     {[kind |-> "facebook", key |-> profile.id, password |-> "",
                       uid |-> made._id]}
               /\ UNCHANGED sessions
               /\ Handled(200, "done"))

InitUsers ==
    /\ users = <<>>
    /\ campsites = [c \in CampsiteIds |-> NoCampsite]
    /\ favorites = <<>>
    /\ now = expiresIn
    /\ req = NoReq
    /\ res = NoRes
    /\ pre = Store
    /\ tk = NoAuth
    /\ verdict = NoVerdict
    /\ registered = {}
    /\ sessions = {}
    /\ held = NoAuth
    /\ pending = [s \in Slots |-> NoPending]

\* the response is delivered and the client drops the outcome of the
\* authentication
FinishAuth ==
    /\ req # NoReq
    /\ req' = NoReq
    /\ res' = NoRes
    /\ pre' = Store
    /\ tk' = NoAuth
    /\ UNCHANGED <<users, campsites, favorites, now, verdict, registered,
                   sessions, held, pending>>

NextUsers ==
    \/ \E username \in Usernames, password \in Passwords,
          firstname \in FirstNames, lastname \in LastNames :
          Signup(username, password, firstname, lastname)
    \/ \E username \in Usernames, password \in Passwords : Login(username, password)
    \/ \E profile \in Profiles : FacebookLogin(profile)
    \/ FinishAuth

SpecUsers == InitUsers /\ [][NextUsers]_vars

(* ===================== the lifetime of a token ========================= *)

\* the jwt strategy checks the token that the last login issued, at time now
VerifyToken ==
    /\ req = NoReq
    /\ tk.token # NoToken
    /\ verdict' = [issued |-> tk.at, for |-> tk.uid, at |-> now,
                   result |-> jwtVerify(tk.token, now),
                   uid |-> IF jwtVerify(tk.token, now) = "ok" THEN tk.token._id ELSE 0]
    /\ UNCHANGED <<users, campsites, favorites, now, req, res, pre, tk, registered,
                   sessions, held, pending>>

\* logins during the first MaxIssue seconds, and the clock running until every
\* token they issued has expired
NextToken ==
    \/ \E username \in Usernames, password \in Passwords :
          now <= expiresIn + MaxIssue /\ Login(username, password)
    \/ Finish
    \/ Tick(2 * expiresIn + MaxIssue + 1)
    \/ VerifyToken

SpecToken == Init /\ [][NextToken]_vars

\* C6: a token issued at time T verifies (returning the user id it was issued
\* for) at every time t with T <= t < T + 3600, and fails with Expired at every
\* time t >= T + 3600.
C6_TokenLifetime ==
    verdict # NoVerdict =>
        /\ (verdict.issued <= verdict.at /\ verdict.at < verdict.issued + 3600)
              => (verdict.result = "ok" /\ verdict.uid = verdict.for)
        /\ verdict.at >= verdict.issued + 3600 => verdict.result = "Expired"

\* the token is refused in the first second after its lifetime, having been
\* issued after the clock's start
C6_Witness ==
    /\ verdict.result = "Expired"
    /\ verdict.issued > expiresIn
    /\ verdict.at = verdict.issued + 3600

(* ================= local registration and authentication =============== *)

\* C7: for every user registered by a signup with (username, password), a later
\* login with that username succeeds, as the user that registration created, when
\* the password is the registered one, and fails with BadCredentials otherwise.
C7_RegisterThenAuthenticate ==
    req.route = "POST /users/login" =>
        \A g \in registered :
            (g.kind = "local" /\ g.key = req.username) =>
                IF req.password = g.password
                THEN /\ res.status = 200
                     /\ tk.uid = g.uid
                     /\ tk.token = getToken(g.uid, now)
                ELSE /\ res.status = 401
                     /\ res.msg = "BadCredentials"

\* a registered user logged in while a facebook user of the same name exists
C7_Witness ==
    /\ req.route = "POST /users/login"
    /\ \E g \in registered :
          g.kind = "local" /\ g.key = req.username /\ g.password = req.password
    /\ \E i \in 1 .. Len(users) :
          users[i].username = req.username /\ users[i].facebookId # ""
    /\ res.status = 200

\* C8: signup with a username that is already in the store fails with
\* UsernameTaken, answered 500 with the error, and the store is as it was.
C8_UsernameTaken ==
    (req.route = "POST /users/signup" /\ findByUsername(pre.users, req.username) # NoUser)
    => /\ res.status = 500
       /\ res.msg = "UsernameTaken"
       /\ users = pre.users

\* a signup under a taken username, with another password and a first name the
\* stored user does not have
C8_Witness ==
    /\ req.route = "POST /users/signup"
    /\ findByUsername(pre.users, req.username) # NoUser
    /\ findByUsername(pre.users, req.username).hash
          # pbkdf2(req.password, findByUsername(pre.users, req.username).salt)
    /\ req.firstname # findByUsername(pre.users, req.username).firstname
    /\ res.status = 500

(* ========================= third-party login =========================== *)

CarriedBy(store, id) == {i \in 1 .. Len(store) : store[i].facebookId = id}

\* C9: a facebook login whose external id no User carries adds exactly one User,
\* with the display name as username and the external id and names of the
\* profile, and resolves to it; a login whose external id a User carries adds
\* nothing and resolves to the User that the first login with that id created.
C9_FacebookLoginOnce ==
    req.route = "facebook" =>
        IF CarriedBy(pre.users, req.profile.id) = {}
        THEN /\ Len(users) = Len(pre.users) + 1
             /\ SubSeq(users, 1, Len(pre.users)) = pre.users
             /\ users[Len(users)].username = req.profile.displayName
             /\ users[Len(users)].facebookId = req.profile.id
             /\ users[Len(users)].firstname = req.profile.givenName
             /\ users[Len(users)].lastname = req.profile.familyName
             /\ \A i \in 1 .. Len(pre.users) : pre.users[i]._id # users[Len(users)]._id
             /\ tk.uid = users[Len(users)]._id
        ELSE /\ users = pre.users
             /\ Cardinality(CarriedBy(users, req.profile.id)) = 1
             /\ \E g \in registered :
                   g.kind = "facebook" /\ g.key = req.profile.id /\ tk.uid = g.uid
             /\ \A g \in registered :
                   (g.kind = "facebook" /\ g.key = req.profile.id) => tk.uid = g.uid

\* a second login with an external id, after other users were added
C9_Witness ==
    /\ req.route = "facebook"
    /\ users = pre.users
    /\ \E g \in registered :
          g.kind = "facebook" /\ g.key = req.profile.id /\ tk.uid = g.uid
             /\ g.uid < Len(users)

\* C10: no two User records share a username.
C10_UsernameUnique ==
    \A i, j \in 1 .. Len(users) : users[i].username = users[j].username => i = j

(* ===================== missing resources under DELETE ================== *)

\* C16: DELETE /:campsiteId/comments/:commentId by an authenticated user answers
\* 404 "Campsite not found" when the campsite does not exist and 404 "Comment not
\* found" when the campsite exists without a comment of that id, as GET and PUT
\* on the same path do.
C16_DeleteMissingIs404 ==
    (req.route \in {DeleteCommentRoute, PutCommentRoute,
                    "GET /campsites/:campsiteId/comments/:commentId"}
        /\ (req.route = DeleteCommentRoute => reqUser(req) # NoUser)
        /\ res.by = "handler")
    => /\ ~pre.campsites[req.campsiteId].present
             => (res.status = 404 /\ res.msg = "Campsite not found")
       /\ (pre.campsites[req.campsiteId].present
             /\ commentsId(pre.campsites[req.campsiteId].comments, req.commentId)
                   = NoComment)
             => (res.status = 404 /\ res.msg = "Comment not found")

(* ========================= the author of a comment ===================== *)

PostCommentsRoute == "POST /campsites/:campsiteId/comments"

\* the comments of the request's campsite, before and after the request
Before == pre.campsites[req.campsiteId].comments
After == campsites[req.campsiteId].comments

\* POST comments stored one comment, after the old ones, under the id of the
\* authenticated user
StoredUnderRequester ==
    /\ Len(After) = Len(Before) + 1
    /\ SubSeq(After, 1, Len(Before)) = Before
    /\ After[Len(After)].author = reqUser(req)._id

\* every comment that is in the store before and after the request has the
\* author it had
AuthorsKept ==
    \A c \in CampsiteIds, k \in CommentIds :
        (commentsId(pre.campsites[c].comments, k) # NoComment
            /\ commentsId(campsites[c].comments, k) # NoComment)
        => commentsId(campsites[c].comments, k).author
              = commentsId(pre.campsites[c].comments, k).author

\* the edit changed at most the rating and the text of the comment it targets
EditFrame ==
    /\ Len(After) = Len(Before)
    /\ \A i \in 1 .. Len(Before) :
          IF Before[i]._id = req.commentId
          THEN /\ After[i]._id = Before[i]._id
               /\ After[i].author = Before[i].author
               /\ After[i].rating \in {Before[i].rating, req.rating}
               /\ After[i].text \in {Before[i].text, req.text}
          ELSE After[i] = Before[i]
    /\ \A c \in CampsiteIds : c # req.campsiteId => campsites[c] = pre.campsites[c]

\* C17 as stated: a comment stored by POST comments has the authenticated user's
\* id as its author, whatever the body carried; no operation changes the author
\* of a stored comment; a comment edit changes only the rating and text of its
\* target.
C17_Original ==
    /\ (req.route = PostCommentsRoute /\ res.status = 200) => StoredUnderRequester
    /\ AuthorsKept
    /\ (req.route = PutCommentRoute /\ res.status = 200) => EditFrame

\* C17 as amended: the same, where "no operation" is every operation other than
\* an admin's PUT /campsites/:campsiteId, whose body is $set on the campsite and
\* so may replace the comments, authors included.
C17_AuthorIsRequester ==
    /\ (req.route = PostCommentsRoute /\ res.status = 200) => StoredUnderRequester
    /\ req.route # "PUT /campsites/:campsiteId" => AuthorsKept
    /\ (req.route = PutCommentRoute /\ res.status = 200) => EditFrame

\* a comment posted under a body that names another user as author, into a
\* campsite that has a comment of that other user
C17_Witness ==
    /\ req.route = PostCommentsRoute
    /\ res.status = 200
    /\ req.author \notin {0, reqUser(req)._id}
    /\ \E i \in 1 .. Len(Before) : Before[i].author = req.author
    /\ StoredUnderRequester

(* =============================== logout ================================ *)

\* GET /logout under the session s that the request's cookie names, 0 for a
\* request without session state.  Line 122 hands Err to next, a name that nothing
\* defines: the ReferenceError is thrown inside the handler and reaches the error
\* handler with no status
Logout(s) ==
    LET r == [NoReq EXCEPT !.route = "GET /users/logout", !.session = s]
    IN  AuthRoute(r,
          /\ IF s # 0
             THEN /\ sessions' = sessions \ {s}
                  /\ Handled(302, "/")
             ELSE /\ UNCHANGED sessions
                  /\ Handled(500, "ReferenceError")
          /\ UNCHANGED <<users, tk, registered>>)

\* the client keeps the token of the login response
KeepToken ==
    /\ req.route = "POST /users/login"
    /\ res.status = 200
    /\ held # tk
    /\ held' = tk
    /\ UNCHANGED <<users, campsites, favorites, now, req, res, pre, tk, verdict,
                   registered, sessions, pending>>

\* a request under the kept token reaches authenticate.verifyUser at time now
VerifyHeld ==
    /\ req = NoReq
    /\ held # NoAuth
    /\ verdict' = [issued |-> held.at, for |-> held.uid, at |-> now,
                   result |-> IF verifyUser(users, held.token, now) # NoUser
                              THEN "ok" ELSE "Unauthorized",
                   uid |-> verifyUser(users, held.token, now)._id]
    /\ UNCHANGED <<users, campsites, favorites, now, req, res, pre, tk, registered,
                   sessions, held, pending>>

\* the clock readings of the requests: the first seconds, in which tokens are
\* issued, and the seconds around the expiry of those tokens
RequestTimes ==
    (expiresIn .. expiresIn + MaxIssue)
        \cup (2 * expiresIn - 1 .. 2 * expiresIn + MaxIssue)

\* the next request arrives at time t
Elapse(t) ==
    /\ req = NoReq
    /\ now < t
    /\ now' = t
    /\ verdict' = NoVerdict
    /\ UNCHANGED <<users, campsites, favorites, req, res, pre, tk, registered,
                   sessions, held, pending>>

\* logins during the first MaxIssue seconds, whose token the client keeps, then
\* logouts, signups and facebook logins while the clock runs past the expiry
NextSessions ==
    \/ \E username \in Usernames :
          now <= expiresIn + MaxIssue /\ Login(username, "p1")
    \/ KeepToken
    \/ \E s \in sessions \cup {0} : Logout(s)
    \/ \E password \in Passwords : Signup("cy", password, "", "")
    \/ \E id \in {"f1", "f2"} :
          FacebookLogin([id |-> id, displayName |-> "cy", givenName |-> "Gi",
                         familyName |-> "Fa"])
    \/ FinishAuth
    \/ \E t \in RequestTimes : Elapse(t)
    \/ VerifyHeld

SpecSessions == Init /\ [][NextSessions]_vars

\* C11: logout of a request with session state destroys the session and
\* redirects the client; logout of a request without session state fails with
\* NotLoggedIn, an error with status 401 and message "You are not logged in!".
C11_Logout ==
    req.route = "GET /users/logout" =>
        IF req.session # 0
        THEN /\ req.session \notin sessions
             /\ res.status = 302
        ELSE /\ res.status = 401
             /\ res.msg = "You are not logged in!"

\* C12: no operation revokes a token: after any sequence of logout, login,
\* signup and facebook login requests, a token issued at time T for an existing
\* user passes verifyUser, as that user, at every time before T + 3600.
C12_NoRevocation ==
    (verdict # NoVerdict /\ verdict.at < verdict.issued + 3600)
    => (verdict.result = "ok" /\ verdict.uid = verdict.for)

\* the kept token passes in the last second of its lifetime, after the session
\* of the login that issued it was destroyed and a user was added
C12_Witness ==
    /\ verdict.result = "ok"
    /\ verdict.at = verdict.issued + 3599
    /\ verdict.for \notin sessions
    /\ Len(users) > NumUsers

(* ================== third-party logins that interleave ================= *)

\* the facebook strategy's verify callback up to User.findOne (line 124): the
\* request waits for the store's answer, which is the _id of the User that
\* carries the profile's id, 0 for none
FacebookFind(slot, profile) ==
    /\ pending[slot] = NoPending
    /\ pending' = [pending EXCEPT ![slot] =
                      [NoPending EXCEPT !.kind = "facebook", !.profile = profile,
                                        !.uid = findByFacebookId(users, profile.id)._id]]
    /\ UNCHANGED <<users, campsites, favorites, now, req, res, pre, tk, verdict,
                   registered, sessions, held>>

\* the callback of findOne (lines 125-143): done(null, user) for the User found,
\* else the new User is made and saved
FacebookThen(slot) ==
    /\ pending[slot].kind = "facebook"
    /\ pending' = [pending EXCEPT ![slot] = NoPending]
    /\ IF pending[slot].uid # 0
       THEN UNCHANGED <<users, registered>>
       ELSE /\ Len(users) < MaxStore
            /\ users' = saveUser(users, facebookNewUser(users, pending[slot].profile))
            /\ registered' = registered \cup
                  {[kind |-> "facebook", key |-> pending[slot].profile.id,
                    password |-> "", uid |-> Len(users) + 1]}
    /\ UNCHANGED <<campsites, favorites, now, req, res, pre, tk, verdict, sessions,
                   held>>

\* facebook logins in two steps each, with local signups between the steps
NextFacebook ==
    \/ \E slot \in Slots, profile \in Profiles : FacebookFind(slot, profile)
    \/ \E slot \in Slots : FacebookThen(slot)
    \/ \E username \in Usernames : Signup(username, "p1", "", "")
    \/ FinishAuth

SpecFacebook == InitUsers /\ [][NextFacebook]_vars

\* C13: under any interleaving of concurrent facebook logins (find by external
\* id, then create and save, with other requests between the two steps), every
\* external id in the store belongs to exactly one User.
C13_FacebookIdUnique ==
    \A i, j \in 1 .. Len(users) :
        (users[i].facebookId # "" /\ users[i].facebookId = users[j].facebookId)
        => i = j

(* ===================== favorites that interleave ======================= *)

FavoriteRoutesWithStore ==
    {"POST /favorites", "DELETE /favorites", "POST /favorites/:campsiteId"}

\* a favorites handler up to Favorite.findOne({ user: req.user._id }): the
\* request waits with the document that the store returned
FavoriteFind(slot, route, tok, ids, c) ==
    LET user == verifyUser(users, tok, now)
        i == findFavorite(user._id)
    IN  /\ pending[slot] = NoPending
        /\ user # NoUser
        /\ pending' = [pending EXCEPT ![slot] =
                          [NoPending EXCEPT
                              !.kind = route, !.uid = user._id, !.ids = ids,
                              !.campsiteId = c, !.doc = i,
                              !.list = IF i # 0 THEN favorites[i].campsites ELSE <<>>]]
        /\ UNCHANGED <<users, campsites, favorites, now, req, res, pre, tk, verdict,
                       registered, sessions, held>>

\* favorite.save() after pushes: the ids pushed onto the loaded array are appended
\* to the stored document, if it is still in the collection
saveFavorite(p, pushed) ==
    IF p.gone THEN favorites
    ELSE [favorites EXCEPT ![p.doc].campsites = @ \o pushed]

\* the requests in flight after the document at index i was removed: the ones
\* that hold it hold a removed document, the ones that hold a later one follow it
afterRemove(i, slot) ==
    [x \in Slots |->
        IF x = slot THEN NoPending
        ELSE IF pending[x].doc = i /\ ~pending[x].gone
             THEN [pending[x] EXCEPT !.gone = TRUE]
        ELSE IF pending[x].doc > i /\ ~pending[x].gone
             THEN [pending[x] EXCEPT !.doc = @ - 1]
        ELSE pending[x]]

\* POST /favorites, lines 26-48
PostFavoritesThen(slot) ==
    LET p == pending[slot]
        merged == pushMissing(p.list, p.ids)
    IN  /\ p.kind = "POST /favorites"
        /\ favorites' = IF p.doc # 0
                        THEN saveFavorite(p, SubSeq(merged, Len(p.list) + 1, Len(merged)))
                        ELSE Append(favorites, [user |-> p.uid, campsites |-> p.ids])
        /\ pending' = [pending EXCEPT ![slot] = NoPending]
        /\ UNCHANGED <<users, campsites, now, req, res, pre, tk, verdict, registered,
                       sessions, held>>

\* DELETE /favorites, lines 58-71
DeleteFavoritesThen(slot) ==
    LET p == pending[slot]
    IN  /\ p.kind = "DELETE /favorites"
        /\ IF p.doc # 0 /\ ~p.gone
           THEN /\ favorites' = RemoveAt(favorites, p.doc)
                /\ pending' = afterRemove(p.doc, slot)
           ELSE /\ UNCHANGED favorites
                /\ pending' = [pending EXCEPT ![slot] = NoPending]
        /\ UNCHANGED <<users, campsites, now, req, res, pre, tk, verdict, registered,
                       sessions, held>>

\* POST /favorites/:campsiteId, lines 88-115
PostFavoriteThen(slot) ==
    LET p == pending[slot]
    IN  /\ p.kind = "POST /favorites/:campsiteId"
        /\ favorites' = IF p.doc # 0
                        THEN IF p.campsiteId \notin Range(p.list)
                             THEN saveFavorite(p, <<p.campsiteId>>)
                             ELSE favorites
                        ELSE Append(favorites,
                                    [user |-> p.uid, campsites |-> <<p.campsiteId>>])
        /\ pending' = [pending EXCEPT ![slot] = NoPending]
        /\ UNCHANGED <<users, campsites, now, req, res, pre, tk, verdict, registered,
                       sessions, held>>

\* the bodies of POST /favorites: up to two campsite ids, the same one twice
\* included
FavoriteBodies ==
    {<<>>} \cup {<<x>> : x \in CampsiteIds}
           \cup {<<x, y>> : x \in CampsiteIds, y \in CampsiteIds}

NextFavorites ==
    \/ \E slot \in Slots, u \in UserIds, ids \in FavoriteBodies :
          FavoriteFind(slot, "POST /favorites", getToken(u, now), ids, 0)
    \/ \E slot \in Slots, u \in UserIds :
          FavoriteFind(slot, "DELETE /favorites", getToken(u, now), <<>>, 0)
    \/ \E slot \in Slots, u \in UserIds, c \in CampsiteIds :
          FavoriteFind(slot, "POST /favorites/:campsiteId", getToken(u, now), <<>>, c)
    \/ \E slot \in Slots : PostFavoritesThen(slot)
    \/ \E slot \in Slots : DeleteFavoritesThen(slot)
    \/ \E slot \in Slots : PostFavoriteThen(slot)

SpecFavorites == Init /\ [][NextFavorites]_vars

\* the favorites documents of user u
FavoritesOf(u) == {i \in 1 .. Len(favorites) : favorites[i].user = u}

\* C18: after any sequence and interleaving of POST /favorites,
\* POST /favorites/:campsiteId and DELETE /favorites requests, each user has at
\* most one favorites document, no document lists a campsite id twice, and the
\* document that a request holds (to change or delete it) is its own user's.
C18_OneFavoritePerUser ==
    /\ \A u \in UserIds : Cardinality(FavoritesOf(u)) <= 1
    /\ \A i \in 1 .. Len(favorites) :
          \A a, b \in 1 .. Len(favorites[i].campsites) :
              favorites[i].campsites[a] = favorites[i].campsites[b] => a = b
    /\ \A i \in 1 .. Len(favorites) : favorites[i].user \in UserIds
    /\ \A slot \in Slots :
          (pending[slot].kind \in FavoriteRoutesWithStore
              /\ pending[slot].doc # 0 /\ ~pending[slot].gone)
          => favorites[pending[slot].doc].user = pending[slot].uid

(* ======================= store calls that fail ========================= *)

\* the number of store calls that the handler of a route makes, one after the
\* other: a lookup, then a save, create or remove
storeCalls(route) ==
    IF route \in {"POST /campsites/:campsiteId/comments",
                  "DELETE /campsites/:campsiteId/comments",
                  "PUT /campsites/:campsiteId/comments/:commentId",
                  "DELETE /campsites/:campsiteId/comments/:commentId",
                  "POST /favorites", "DELETE /favorites", "POST /favorites/:campsiteId"}
    THEN 2
    ELSE IF route \in {"GET /campsites", "POST /campsites", "DELETE /campsites",
                       "GET /campsites/:campsiteId", "PUT /campsites/:campsiteId",
                       "DELETE /campsites/:campsiteId",
                       "GET /campsites/:campsiteId/comments",
                       "GET /campsites/:campsiteId/comments/:commentId",
                       "GET /favorites"}
    THEN 1
    ELSE 0

\* the promise of the n-th store call of the route's handler ends in a .catch
\* that calls next(err): every one but Favorite.findOne of POST /favorites
\* (part_001 line 25), whose .then has no .catch behind it
catches(route, n) == ~(route = "POST /favorites" /\ n = 1)

\* the handler of r, on the store as it is, gets as far as its second store call
reachesSecondCall(r) ==
    LET c == r.campsiteId
        comment == commentsId(campsites[c].comments, r.commentId)
        i == findFavorite(reqUser(r)._id)
    IN  IF r.route \in {"POST /campsites/:campsiteId/comments",
                        "DELETE /campsites/:campsiteId/comments"}
        THEN campsites[c].present
        ELSE IF r.route = "PUT /campsites/:campsiteId/comments/:commentId"
        THEN campsites[c].present /\ comment # NoComment
                /\ mayEditComment(reqUser(r), comment)
        ELSE IF r.route = "DELETE /campsites/:campsiteId/comments/:commentId"
        THEN campsites[c].present /\ comment # NoComment
                /\ mayDeleteComment(reqUser(r), comment)
        ELSE IF r.route = "DELETE /favorites" THEN i # 0
        ELSE IF r.route = "POST /favorites/:campsiteId"
        THEN IF i = 0 THEN TRUE ELSE c \notin Range(favorites[i].campsites)
        ELSE r.route = "POST /favorites"

\* the request r passes its middleware and the n-th store call of its handler
\* fails (r.fails = n): the store is as it was; the error goes to next(err), which
\* answers 500, or to nobody
StoreFailure(r, n) ==
    /\ gate(r) = "handler"
    /\ n \in 1 .. storeCalls(r.route)
    /\ n = 2 => reachesSecondCall(r)
    /\ Serve([r EXCEPT !.fails = n],
             /\ IF catches(r.route, n) THEN Handled(500, "StorageError")
                ELSE res' = NoResponse
             /\ UNCHANGED <<campsites, favorites>>)

\* the client gives up on a request that stays pending
Abandon ==
    /\ req # NoReq
    /\ res = NoResponse
    /\ req' = NoReq
    /\ res' = NoRes
    /\ pre' = Store
    /\ UNCHANGED <<users, campsites, favorites, now, tk, verdict, registered,
                   sessions, held, pending>>

\* the path parameters of a route
hasCampsiteId(route) ==
    route \notin {"GET /campsites", "POST /campsites", "DELETE /campsites",
                  "GET /favorites", "POST /favorites", "DELETE /favorites"}

hasCommentId(route) ==
    route \in {"GET /campsites/:campsiteId/comments/:commentId",
               "PUT /campsites/:campsiteId/comments/:commentId",
               "DELETE /campsites/:campsiteId/comments/:commentId"}

RoutesWithStore ==
    {"GET /campsites", "POST /campsites", "DELETE /campsites",
     "GET /campsites/:campsiteId", "PUT /campsites/:campsiteId",
     "DELETE /campsites/:campsiteId",
     "GET /campsites/:campsiteId/comments", "POST /campsites/:campsiteId/comments",
     "DELETE /campsites/:campsiteId/comments",
     "GET /campsites/:campsiteId/comments/:commentId",
     "PUT /campsites/:campsiteId/comments/:commentId",
     "DELETE /campsites/:campsiteId/comments/:commentId",
     "GET /favorites", "POST /favorites", "DELETE /favorites",
     "POST /favorites/:campsiteId"}

\* the requests, under bearer tokens from T, to the routes whose handler calls
\* the store
RequestsWithStore(T) ==
    {[NoReq EXCEPT !.route = route,
                   !.token = IF usesVerifyUser(route) THEN tok ELSE NoToken,
                   !.campsiteId = IF hasCampsiteId(route) THEN c ELSE 0,
                   !.commentId = IF hasCommentId(route) THEN k ELSE 0] :
        route \in RoutesWithStore, tok \in T, c \in CampsiteIds, k \in CommentIds}

\* the routers under valid tokens, over a store whose calls may fail
NextFailures ==
    \/ CampsiteRoutes({getToken(u, now) : u \in UserIds}, {"n1"}, {1}, {"a"})
    \/ FavoriteRoutes({getToken(u, now) : u \in UserIds})
    \/ \E r \in RequestsWithStore({getToken(u, now) : u \in UserIds}), n \in 1 .. 2 :
          StoreFailure(r, n)
    \/ Finish
    \/ Abandon

SpecFailures == Init /\ [][NextFailures]_vars

\* C14: no storage failure is swallowed: when a store call of the handler of an
\* authenticated request fails, the handler's run ends with the failure handed to
\* next(err) or with an error response, never with the request left pending;
\* POST /favorites under a failing lookup included.
C14_NoFailureSwallowed ==
    (req.fails # 0 /\ reqUser(req) # NoUser)
    => (res # NoResponse /\ res.status >= 400)

(* ======================== signup steps that fail ======================= *)

\* POST /signup when its n-th step fails on the store: 1 is User.register
\* (line 27), 2 is user.save (line 50), 3 is the lookup of the local strategy in
\* passport.authenticate('local') (line 64).  The error of step 3 goes to the
\* callback that the handler passed as next, which takes no argument and answers
\* 200
SignupFailing(username, password, firstname, lastname, n) ==
    LET r == [NoReq EXCEPT !.route = "POST /users/signup", !.username = username,
                           !.password = password, !.firstname = firstname,
                           !.lastname = lastname, !.fails = n]
        cred == signupCredentials(r)
    IN  AuthRoute(r,
          \E salt \in Salts :
            LET reg == register(users, newUser(users, cred.username), cred.password, salt)
                saved == saveUser(reg.store, withProfile(reg.user, firstname, lastname))
                entry == [kind |-> "local", key |-> username, password |-> password,
                          uid |-> reg.user._id]
            IN  /\ n \in 1 .. 3
                /\ IF n = 1
                   THEN /\ Handled(500, "StorageError")
                        /\ UNCHANGED <<users, registered>>
                   ELSE /\ ~registerFailed(reg.err)
                        /\ Len(users) < MaxStore
                        /\ registered' = registered \cup {entry}
                        /\ IF n = 2
                           THEN users' = reg.store /\ Handled(500, "StorageError")
                           ELSE users' = saved
                                   /\ Handled(200, "Registration Successful!")
                /\ UNCHANGED <<tk, sessions>>)

NextSignup ==
    \/ \E username \in Usernames, firstname \in FirstNames :
          Signup(username, "p1", firstname, "")
    \/ \E username \in Usernames, firstname \in FirstNames, n \in 1 .. 3 :
          SignupFailing(username, "p1", firstname, "", n)
    \/ \E username \in Usernames : Login(username, "p1")
    \/ FinishAuth

SpecSignup == InitUsers /\ [][NextSignup]_vars

\* C15: a signup that ends with the HTTP 500 error payload leaves the store
\* without a new User for the requested username (the store is as the request
\* found it), whichever step failed.
C15_FailedSignupStoresNothing ==
    (req.route = "POST /users/signup" /\ res.status = 500)
    => /\ users = pre.users
       /\ findByUsername(users, req.username) = findByUsername(pre.users, req.username)

====
